---- MODULE Spec2Model ----
(***************************************************************************)
(* A model of the Dilithium signature implementation: the polynomial ring  *)
(* Zq[X]/(X^N + 1) of ring.py, the SHAKE128-based expansion of hash.py and *)
(* the OptimizedDilithium class of dilithium.py (constructor, keygen,      *)
(* sign, verify and the lru_cache-wrapped get_matrix_A).                   *)
(*                                                                         *)
(* Python integers are unbounded; TLC's are 32-bit, so every product of    *)
(* two coefficients is computed by MulModQ, which yields exactly           *)
(* (a * b) % Q without leaving 32 bits.  The degree bound N is scaled      *)
(* down; Q, D, GAMMA1, GAMMA2, BETA and the parameter sets keep their      *)
(* values.  Random 32-byte seeds are drawn from the small set Seeds, and   *)
(* SHAKE128, an external primitive, is the deterministic word generator    *)
(* ShakeWord.  The numpy scalars that _generate_vector and _high_bits hand *)
(* to Polynomial are taken as the integers they hold: arithmetic on them   *)
(* is exact, as it is on Python integers and on 64-bit numpy scalars.      *)
(***************************************************************************)
EXTENDS Integers, Sequences, FiniteSets, TLC

\* ------------------------------------------------------------- bounds
\* Polynomial.N, scaled down (256 in ring.py).
N == 3
\* secrets.token_bytes(32) draws one of NumSeeds seeds for rho, and one of
\* NumVectorSeeds seeds in _generate_vector.
NumSeeds == 2
NumVectorSeeds == 1
\* The caller makes at most MaxKeygenCalls calls of keygen() and at most
\* MaxSignCalls calls of sign().
MaxKeygenCalls == 2
MaxSignCalls == 1
\* The number of OptimizedDilithium objects the caller may create.
NumInst == 2
\* The messages the caller signs and verifies are 1..NumMsgs.
NumMsgs == 1
\* sign is called with max_attempts in -1..MaxAttempts.
MaxAttempts == 1
\* The constructor is called with security_level in 0..MaxLevel.
MaxLevel == 5

\* ------------------------------------------------- program constants
Q == 8380417
D == 13
GAMMA1 == Q \div 4
GAMMA2 == Q \div 8
TAU == 60
BETA == Q \div 32
DOMAIN_SMALL_POLY == 3
DOMAIN_Y_POLY == 5
DOMAIN_MATRIX == 1
DOMAIN_CHALLENGE == 2

\* None for a seed (self.rho); None for a list-valued field is <<>>.
NoSeed == 0
Seeds == 1..NumSeeds
VectorSeeds == 1..NumVectorSeeds
Inst == 1..NumInst
Messages == 1..NumMsgs

\* ---------------------------------------------------------------- ring

\* (a * b) % Q for a, b in 0..Q-1, as Python's unbounded product gives it.
MulModQ(a, b) ==
    LET b2 == b \div 65536
        b1 == (b \div 256) % 256
        b0 == b % 256
        r2 == (a * b2) % Q
        r1 == (((r2 * 256) % Q) + ((a * b1) % Q)) % Q
    IN  (((r1 * 256) % Q) + ((a * b0) % Q)) % Q

\* The Python list f[1], ..., f[len], every element computed once.
List(f, len) == SubSeq(f, 1, len)

\* Polynomial.__init__: reduce modulo Q, truncate to N, pad with zeros.
Polynomial(coefficients) ==
    List([n \in 1..N |-> IF n <= Len(coefficients) THEN coefficients[n] % Q ELSE 0], N)

ZeroPoly == List([n \in 1..N |-> 0], N)

\* Polynomial.__add__ and __sub__ (zip over both coefficient lists).
PolyAdd(a, b) == Polynomial([n \in 1..N |-> (a[n] + b[n]) % Q])

PolySub(a, b) == Polynomial([n \in 1..N |-> (a[n] - b[n]) % Q])

\* One step of the double loop of Polynomial.__mul__ at (i, j), without
\* the sign flip of the reduction X^N = -1.
MulStep_NoWrapSign(a, b, i, j, result) ==
    LET deg == i + j
    IN  IF deg >= N
        THEN [result EXCEPT ![deg - N + 1] = (@ + MulModQ(a[i + 1], b[j + 1])) % Q]
        ELSE [result EXCEPT ![deg + 1] = (@ + MulModQ(a[i + 1], b[j + 1])) % Q]

\* One step of the double loop of Polynomial.__mul__ at (i, j).
MulStep(a, b, i, j, result) ==
    LET deg == i + j
    IN  IF deg >= N
        THEN [result EXCEPT
                ![deg - N + 1] = (@ + ((0 - MulModQ(a[i + 1], b[j + 1])) % Q)) % Q]
        ELSE [result EXCEPT ![deg + 1] = (@ + MulModQ(a[i + 1], b[j + 1])) % Q]

\* `result` after the first p steps of the double loop, (i, j) in row order.
RECURSIVE MulLoop(_, _, _)
MulLoop(a, b, p) ==
    IF p = 0 THEN ZeroPoly
    ELSE MulStep(a, b, (p - 1) \div N, (p - 1) % N, MulLoop(a, b, p - 1))

\* Polynomial.__mul__.
PolyMul(a, b) == Polynomial(MulLoop(a, b, N * N))

\* ---------------------------------------------------------------- hash

\* The bytes appended to the seed before hashing, folded to one number.
RECURSIVE TagOf(_)
TagOf(suffix) ==
    IF suffix = <<>> THEN 1
    ELSE (TagOf(Tail(suffix)) * 257 + Head(suffix)) % 46337

\* SHAKE128 of seed + suffix, read as little-endian 4-byte words: word idx.
\* A deterministic stand-in for the external primitive, with words below 2^31.
ShakeWord(seed, suffix, idx) ==
    LET h == (seed * 7919 + TagOf(suffix) * 977 + idx * 131 + 17) % 46337
    IN  h * 46337 + ((h * h) % 46337)

\* expand_seed, its output read as `nwords` uint32 words (np.frombuffer).
expand_seed(seed, domain, nwords) ==
    List([w \in 1..nwords |-> ShakeWord(seed, <<domain>>, w - 1)], nwords)

\* generate_matrix_from_seed: entry (i, j) hashes seed + bytes([i, j, DOMAIN_MATRIX]).
generate_matrix_from_seed(seed, k, l) ==
    List([i \in 1..k |->
        List([j \in 1..l |->
            Polynomial([n \in 1..N |->
                ShakeWord(seed, <<i - 1, j - 1, DOMAIN_MATRIX>>, n - 1) % Q])], l)], k)

\* Challenge derivation (generate_challenge is imported from hash but is not
\* among the source files): a sparse ternary polynomial with Min(TAU, N)
\* nonzero coefficients, each +1 or -1 (Q - 1), keyed by SHAKE128 over the
\* message, the public key, the commitment w1 and DOMAIN_CHALLENGE.
RECURSIVE Absorb(_, _)
Absorb(xs, n) ==
    IF n = 0 THEN 1 ELSE (Absorb(xs, n - 1) * 31 + xs[n] + 7) % 46337

RECURSIVE AbsorbVector(_, _)
AbsorbVector(v, p) ==
    IF p = 0 THEN 1
    ELSE (AbsorbVector(v, p - 1) * 37 + Absorb(v[p], Len(v[p])) + 11) % 46337

generate_challenge(message, public_key, w1) ==
    LET seed == Absorb(<<message, public_key[1],
                         AbsorbVector(public_key[2], Len(public_key[2])),
                         AbsorbVector(w1, Len(w1))>>, 4)
    IN  Polynomial([n \in 1..N |->
            IF n <= TAU
            THEN (IF ShakeWord(seed, <<DOMAIN_CHALLENGE>>, n - 1) % 2 = 0 THEN 1 ELSE 0 - 1)
            ELSE 0])

\* ----------------------------------------------------------- dilithium

PARAMS_eta_typo ==
    (2 :> [k |-> 4, l |-> 4, eta |-> 2]) @@
    (3 :> [k |-> 6, l |-> 5, eta |-> 2]) @@
    (5 :> [k |-> 8, l |-> 7, eta |-> 2])

PARAMS ==
    (2 :> [k |-> 4, l |-> 4, eta |-> 2]) @@
    (3 :> [k |-> 6, l |-> 5, eta |-> 4]) @@
    (5 :> [k |-> 8, l |-> 7, eta |-> 2])

VARIABLES
    inst,     \* the OptimizedDilithium objects: [alive, k, l, eta, rho, t, s1, s2, A_cache]
    lru,      \* the lru_cache(maxsize=1) around get_matrix_A: [key, val], key 0 when empty
    frame,    \* the running sign() call, between two iterations of its loop
    held,     \* the last signature sign() returned to the caller
    ret,      \* how the last call ended
    level,    \* the security_level each object was constructed with
    keygens,  \* whether keygen() has completed on each object
    used,     \* the calls of keygen() and of sign() made so far
    p1, p2, prod   \* ring.py's test(): two polynomials and their product

vars == <<inst, lru, frame, held, ret, level, keygens, used, p1, p2, prod>>
dilithiumVars == <<inst, lru, frame, held, ret, level, keygens, used>>
ringVars == <<p1, p2, prod>>

Min(a, b) == IF a < b THEN a ELSE b

\* _generate_vector with the seed secrets.token_bytes drew.
generate_vector(size, bound, domain, seed) ==
    LET coeffs == expand_seed(seed, domain, size * N)
    IN  List([p \in 1..size |->
            Polynomial([n \in 1..N |->
                (coeffs[(p - 1) * N + n] % (2 * bound + 1)) - bound])], size)

generate_y_vector(self, seed) == generate_vector(self.l, GAMMA1, DOMAIN_Y_POLY, seed)

generate_small_vector(self, size, seed) ==
    generate_vector(size, self.eta, DOMAIN_SMALL_POLY, seed)

\* The inner loop of _matrix_multiply: zip(row, vector) stops at the shorter.
\* sum_poly after the first j pairs of zip(row, vector).
RECURSIVE RowSum(_, _, _)
RowSum(row, vector, j) ==
    IF j = 0 THEN ZeroPoly
    ELSE PolyAdd(RowSum(row, vector, j - 1), PolyMul(row[j], vector[j]))

matrix_multiply(matrix, vector) ==
    List([r \in 1..Len(matrix) |->
            RowSum(matrix[r], vector, Min(Len(matrix[r]), Len(vector)))], Len(matrix))

\* _high_bits: (coeffs + GAMMA2) >> D.
high_bits(poly) == Polynomial([n \in 1..N |-> (poly[n] + GAMMA2) \div (2 ^ D)])

\* np.abs over the concatenated coefficients of a vector of polynomials.
AbsCoeffs(v) == {v[p][n] : p \in 1..Len(v), n \in 1..N}

\* The function under the lru_cache: [raised, value, self].
get_matrix_A_body(self) ==
    IF self.rho = NoSeed
    THEN [raised |-> TRUE, value |-> <<>>, self |-> self]
    ELSE IF self.A_cache = <<>>
         THEN LET A == generate_matrix_from_seed(self.rho, self.k, self.l)
              IN  [raised |-> FALSE, value |-> A, self |-> [self EXCEPT !.A_cache = A]]
         ELSE [raised |-> FALSE, value |-> self.A_cache, self |-> self]

\* get_matrix_A as called: the lru_cache, keyed by the object, answers a hit
\* without running the body; a miss runs it and keeps what it returned.
get_matrix_A(i, self, cache) ==
    IF cache.key = i
    THEN [raised |-> FALSE, value |-> cache.val, self |-> self, lru |-> cache]
    ELSE LET r == get_matrix_A_body(self)
         IN  [raised |-> r.raised, value |-> r.value, self |-> r.self,
              lru |-> IF r.raised THEN cache ELSE [key |-> i, val |-> r.value]]

\* OptimizedDilithium.__init__: [raised, self].
NoObject ==
    [alive |-> FALSE, k |-> 0, l |-> 0, eta |-> 0,
     rho |-> NoSeed, t |-> <<>>, s1 |-> <<>>, s2 |-> <<>>, A_cache |-> <<>>]

init(security_level) ==
    IF security_level \notin DOMAIN PARAMS
    THEN [raised |-> TRUE, self |-> NoObject]
    ELSE [raised |-> FALSE,
          self |-> [alive |-> TRUE,
                    k |-> PARAMS[security_level].k,
                    l |-> PARAMS[security_level].l,
                    eta |-> PARAMS[security_level].eta,
                    rho |-> NoSeed, t |-> <<>>, s1 |-> <<>>, s2 |-> <<>>,
                    A_cache |-> <<>>]]

NoFrame ==
    [active |-> FALSE, self |-> 0, message |-> 0, max_attempts |-> 0,
     attempts |-> 0, A |-> <<>>, public_key |-> <<NoSeed, <<>>>>]

NoSignature ==
    [present |-> FALSE, z |-> <<>>, c |-> <<>>, w1 |-> <<>>, signer |-> 0,
     message |-> 0, public_key |-> <<NoSeed, <<>>>>]

Ret(op, i, kind, value) ==
    [op |-> op, self |-> i, kind |-> kind, value |-> value,
     arg |-> 0, zExceeds |-> FALSE, honest |-> FALSE]

\* `not all([self.rho, self.t, self.s1, self.s2])`
keys_missing(self) ==
    self.rho = NoSeed \/ self.t = <<>> \/ self.s1 = <<>> \/ self.s2 = <<>>

\* The centered representative of a coefficient held in [0, Q).
Centered(c) == IF c > (Q - 1) \div 2 THEN c - Q ELSE c

AbsInt(x) == IF x < 0 THEN 0 - x ELSE x

\* Whether some coefficient of z, centered, exceeds GAMMA1 - BETA.
ExceedsResponseBound(z) ==
    \E c \in AbsCoeffs(z) : AbsInt(Centered(c)) > GAMMA1 - BETA

InitDilithium ==
    /\ inst = [i \in Inst |-> NoObject]
    /\ lru = [key |-> 0, val |-> <<>>]
    /\ frame = NoFrame
    /\ held = NoSignature
    /\ ret = Ret("none", 0, "none", FALSE)
    /\ level = [i \in Inst |-> 0]
    /\ keygens = [i \in Inst |-> FALSE]
    /\ used = [keygen |-> 0, sign |-> 0]

\* d = OptimizedDilithium(security_level)
Construct(i, security_level) ==
    /\ ~frame.active
    /\ ~inst[i].alive
    /\ \E r \in {init(security_level)} :
           IF r.raised
           THEN /\ ret' = [Ret("init", i, "ValueError", FALSE) EXCEPT !.arg = security_level]
                /\ UNCHANGED <<inst, level>>
           ELSE /\ inst' = [inst EXCEPT ![i] = r.self]
                /\ level' = [level EXCEPT ![i] = security_level]
                /\ ret' = [Ret("init", i, "return", TRUE) EXCEPT !.arg = security_level]
    /\ UNCHANGED <<lru, frame, held, keygens, used, ringVars>>

\* keygen() with the three seeds secrets.token_bytes draws: [self, lru].
keygen(i, self, cache, rho, seed1, seed2) ==
    LET g == get_matrix_A(i, [self EXCEPT !.rho = rho, !.A_cache = <<>>], cache)
        A == g.value
        s1 == generate_small_vector(g.self, g.self.l, seed1)
        s2 == generate_small_vector(g.self, g.self.k, seed2)
        As1 == matrix_multiply(A, s1)
        t == List([r \in 1..Len(As1) |->
                 IF r <= g.self.k THEN PolyAdd(As1[r], s2[r]) ELSE As1[r]], Len(As1))
    IN  [self |-> [g.self EXCEPT !.s1 = s1, !.s2 = s2, !.t = t], lru |-> g.lru]

Keygen(i, rho, seed1, seed2) ==
    /\ ~frame.active
    /\ inst[i].alive
    /\ used.keygen < MaxKeygenCalls
    /\ used' = [used EXCEPT !.keygen = @ + 1]
    /\ \E r \in {keygen(i, inst[i], lru, rho, seed1, seed2)} :
          /\ inst' = [inst EXCEPT ![i] = r.self]
          /\ lru' = r.lru
    /\ keygens' = [keygens EXCEPT ![i] = TRUE]
    /\ ret' = Ret("keygen", i, "return", TRUE)
    /\ UNCHANGED <<frame, held, level, ringVars>>

\* sign() without its key check, reading the matrix straight from the seed.
sign_entry_unchecked(i, self, cache) ==
    [raised |-> FALSE, value |-> generate_matrix_from_seed(self.rho, self.k, self.l),
     self |-> self, lru |-> cache]

\* sign() up to its loop: the key check and the fetch of A.
sign_entry(i, self, cache) ==
    IF keys_missing(self)
    THEN [raised |-> TRUE, value |-> <<>>, self |-> self, lru |-> cache]
    ELSE get_matrix_A(i, self, cache)

SignCall(i, message, max_attempts) ==
    /\ ~frame.active
    /\ inst[i].alive
    /\ used.sign < MaxSignCalls
    /\ used' = [used EXCEPT !.sign = @ + 1]
    /\ \E e \in {sign_entry(i, inst[i], lru)} :
           IF e.raised
           THEN /\ ret' = Ret("sign", i, "ValueError", FALSE)
                /\ UNCHANGED <<inst, lru, frame>>
           ELSE /\ inst' = [inst EXCEPT ![i] = e.self]
                /\ lru' = e.lru
                /\ frame' = [active |-> TRUE, self |-> i, message |-> message,
                             max_attempts |-> max_attempts, attempts |-> 0,
                             A |-> e.value,
                             public_key |-> <<inst[i].rho, inst[i].t>>]
                /\ ret' = Ret("sign", i, "running", FALSE)
    /\ UNCHANGED <<held, level, keygens, ringVars>>

loop_continues_off_by_one(attempts, max_attempts) == attempts <= max_attempts

\* `while attempts < max_attempts`
loop_continues(attempts, max_attempts) == attempts < max_attempts

\* The two rejection checks of the loop body.
w1_rejected(w1) == \E c \in AbsCoeffs(w1) : AbsInt(c) > Q \div 3

z_rejected(z) == \E c \in AbsCoeffs(z) : AbsInt(c) > Q

\* The body of the loop of sign() with the seed drawn for y:
\* [rejected, z, c, w1].
sign_attempt(self, A, message, public_key, seed) ==
    LET y == generate_y_vector(self, seed)
        w == matrix_multiply(A, y)
        w1 == List([r \in 1..Len(w) |-> high_bits(w[r])], Len(w))
    IN  IF w1_rejected(w1)
        THEN [rejected |-> TRUE, z |-> <<>>, c |-> <<>>, w1 |-> w1]
        ELSE LET c == generate_challenge(message, public_key, w1)
                 z == List([p \in 1..self.l |->
                              PolyAdd(y[p], PolyMul(c, self.s1[p]))], self.l)
             IN  [rejected |-> z_rejected(z), z |-> z, c |-> c, w1 |-> w1]

\* One iteration of the loop of sign().
SignAttempt(seed) ==
    /\ frame.active
    /\ loop_continues(frame.attempts, frame.max_attempts)
    /\ \E a \in {sign_attempt(inst[frame.self], frame.A, frame.message,
                              frame.public_key, seed)} :
           IF a.rejected
           THEN /\ frame' = [frame EXCEPT !.attempts = @ + 1]
                /\ UNCHANGED <<held, ret>>
           ELSE /\ frame' = NoFrame
                /\ held' = [present |-> TRUE, z |-> a.z, c |-> a.c, w1 |-> a.w1,
                            signer |-> frame.self, message |-> frame.message,
                            public_key |-> frame.public_key]
                /\ ret' = [Ret("sign", frame.self, "return", TRUE)
                              EXCEPT !.arg = frame.attempts + 1]
    /\ UNCHANGED <<inst, lru, level, keygens, used, ringVars>>

\* The loop ends without a signature: RuntimeError.
SignExhausted ==
    /\ frame.active
    /\ ~loop_continues(frame.attempts, frame.max_attempts)
    /\ frame' = NoFrame
    /\ ret' = [Ret("sign", frame.self, "RuntimeError", FALSE) EXCEPT !.arg = frame.attempts]
    /\ UNCHANGED <<inst, lru, held, level, keygens, used, ringVars>>

\* verify(message, signature, public_key): [raised, value].
verify(self, message, signature, public_key) ==
    LET z == signature[1]
        c == signature[2]
        rho == public_key[1]
        t == public_key[2]
    IN  IF \E x \in AbsCoeffs(z) : AbsInt(x) >= Q
        THEN [raised |-> FALSE, value |-> FALSE]
        ELSE IF Len(t) < self.k
        THEN [raised |-> TRUE, value |-> FALSE]
        ELSE LET A == generate_matrix_from_seed(rho, self.k, self.l)
                 Az == matrix_multiply(A, z)
                 w == List([r \in 1..self.k |-> PolySub(Az[r], PolyMul(c, t[r]))], self.k)
                 w1 == List([r \in 1..self.k |-> high_bits(w[r])], self.k)
             IN  IF \E x \in AbsCoeffs(w1) : AbsInt(x) >= Q \div 3
                 THEN [raised |-> FALSE, value |-> FALSE]
                 ELSE [raised |-> FALSE,
                       value |-> generate_challenge(message, public_key, w1) = c]

\* The public keys the caller holds: the one the held signature was made
\* under and the current one of every object with keys.
PublicKeys ==
    {held.public_key} \cup {<<inst[j].rho, inst[j].t>> : j \in {x \in Inst : keygens[x]}}

Verify(i, message, public_key) ==
    /\ ~frame.active
    /\ inst[i].alive
    /\ held.present
    /\ \E v \in {verify(inst[i], message, <<held.z, held.c>>, public_key)} :
           ret' = [Ret("verify", i, IF v.raised THEN "IndexError" ELSE "return", v.value)
                      EXCEPT !.zExceeds = ExceedsResponseBound(held.z),
                             !.honest = /\ i = held.signer
                                        /\ message = held.message
                                        /\ public_key = held.public_key
                                        /\ public_key = <<inst[i].rho, inst[i].t>>]
    /\ UNCHANGED <<inst, lru, frame, held, level, keygens, used, ringVars>>

\* A call of get_matrix_A() by the caller.
GetMatrix(i) ==
    /\ ~frame.active
    /\ inst[i].alive
    /\ \E g \in {get_matrix_A(i, inst[i], lru)} :
           /\ inst' = [inst EXCEPT ![i] = g.self]
           /\ lru' = g.lru
           /\ ret' = Ret("get_matrix_A", i, IF g.raised THEN "ValueError" ELSE "return",
                         ~g.raised)
    /\ UNCHANGED <<frame, held, level, keygens, used, ringVars>>

Init ==
    /\ InitDilithium
    /\ p1 = ZeroPoly
    /\ p2 = ZeroPoly
    /\ prod = <<>>

Next ==
    \/ \E i \in Inst, security_level \in 0..MaxLevel : Construct(i, security_level)
    \/ \E i \in Inst, rho \in Seeds, seed1 \in VectorSeeds, seed2 \in VectorSeeds :
          Keygen(i, rho, seed1, seed2)
    \/ \E i \in Inst, message \in Messages, max_attempts \in (0 - 1)..MaxAttempts :
          SignCall(i, message, max_attempts)
    \/ \E seed \in VectorSeeds : SignAttempt(seed)
    \/ SignExhausted
    \/ \E i \in Inst, message \in Messages, public_key \in PublicKeys :
          Verify(i, message, public_key)
    \/ \E i \in Inst : GetMatrix(i)

Spec == Init /\ [][Next]_vars

\* ------------------------------------------------------ ring.py alone

\* The coefficients the two factors are drawn from.
CoefP1 == {0, 1, 2, Q - 1}
CoefP2 == {0, 1, 3, 4, Q - 1}

InitRing ==
    /\ InitDilithium
    /\ p1 \in [1..N -> CoefP1]
    /\ p2 \in [1..N -> CoefP2]
    /\ prod = <<>>

\* prod = p1 * p2
RingMul ==
    /\ prod = <<>>
    /\ prod' = PolyMul(p1, p2)
    /\ UNCHANGED <<p1, p2, dilithiumVars>>

SpecRing == InitRing /\ [][RingMul]_vars

\* -------------------------------------------------------------- claims

\* The public key (rho, t) and the secret key of object i, as keygen left them.
A_of(i) == generate_matrix_from_seed(inst[i].rho, inst[i].k, inst[i].l)

As1_plus_s2(i) ==
    LET As1 == matrix_multiply(A_of(i), inst[i].s1)
    IN  List([r \in 1..inst[i].k |-> PolyAdd(As1[r], inst[i].s2[r])], inst[i].k)

\* C1: a signature sign(m) returned on an object verifies, on that object,
\* for m under the public key of the object's most recent keygen().
C1_RoundTrip ==
    (ret.op = "verify" /\ ret.honest) => (ret.kind = "return" /\ ret.value = TRUE)

\* C2: after every completed keygen(), t = A * s1 + s2 with A the matrix of
\* the rho that keygen() drew.
C2_KeyPairInvariant ==
    \A i \in Inst : keygens[i] => inst[i].t = As1_plus_s2(i)

\* What one step of a running sign() may do.
C3_StepOK ==
    frame.active =>
        /\ frame.attempts < frame.max_attempts =>
              /\ frame'.active =>
                    /\ frame'.attempts = frame.attempts + 1
                    /\ held' = held
              /\ ~frame'.active =>
                    /\ ret'.op = "sign" /\ ret'.kind = "return"
                    /\ ret'.arg = frame.attempts + 1
                    /\ held'.present
                    /\ ~w1_rejected(held'.w1)
                    /\ ~z_rejected(held'.z)
        /\ frame.attempts >= frame.max_attempts =>
              /\ ~frame'.active
              /\ ret'.op = "sign" /\ ret'.kind = "RuntimeError"
              /\ held' = held

\* C3: sign() on an object with keys ends within max_attempts iterations of
\* its loop: every step of a running call is one iteration, which either
\* counts one more attempt (below max_attempts) or ends the call with a
\* signature that passed both rejection checks of the loop; once the
\* attempts are used up (at once when max_attempts <= 0) the only step is
\* the one that raises RuntimeError, and it returns no signature.
C3_BoundedRetry ==
    /\ [](frame.active =>
            /\ keygens[frame.self]
            /\ frame.attempts >= 0
            /\ (frame.attempts <= frame.max_attempts \/ frame.attempts = 0))
    /\ [][C3_StepOK]_vars

C3_Witness ==
    /\ ret.op = "sign" /\ ret.kind = "RuntimeError"
    /\ keygens[ret.self]
    /\ held = NoSignature

\* C4: every coefficient of the z of a signature sign() returned, centered
\* modulo Q, lies within GAMMA1 - BETA.
C4_SignerResponseBound == held.present => ~ExceedsResponseBound(held.z)

\* C5: verify() returns False for a signature whose z has a coefficient
\* that, centered modulo Q, exceeds GAMMA1 - BETA.
C5_VerifierResponseBound ==
    (ret.op = "verify" /\ ret.zExceeds) => (ret.kind = "return" /\ ret.value = FALSE)

\* C6: verify() ends by returning True or False, never by raising.
C6_VerifyNeverRaises == ret.op = "verify" => ret.kind = "return"

\* C7: on an object on which keygen() never completed, sign() raises
\* ValueError, starts no attempt, returns no signature and leaves rho, t, s1
\* and s2 None; a signature is returned only after a keygen() on the object.
C7_SignNeedsKeys ==
    /\ \A i \in Inst :
          ~keygens[i] =>
              /\ inst[i].rho = NoSeed /\ inst[i].t = <<>>
              /\ inst[i].s1 = <<>> /\ inst[i].s2 = <<>>
    /\ (ret.op = "sign" /\ ~keygens[ret.self]) =>
          (ret.kind = "ValueError" /\ ~frame.active)
    /\ frame.active => keygens[frame.self]
    /\ held.present => keygens[held.signer]

C7_Witness ==
    /\ ret.op = "sign" /\ ret.kind = "ValueError"
    /\ ~keygens[ret.self]
    /\ \E j \in Inst : keygens[j]

\* The (k, l, eta) the claim gives for each security level.
LevelTable(lv) ==
    CASE lv = 2 -> <<4, 4, 2>>
      [] lv = 3 -> <<6, 5, 4>>
      [] lv = 5 -> <<8, 7, 2>>
      [] OTHER -> <<0, 0, 0>>

\* C8: the constructor raises ValueError and yields no object unless
\* security_level is 2, 3 or 5; a constructed object has (k, l, eta) =
\* (4,4,2), (6,5,4), (8,7,2) for level 2, 3, 5, in every later state.
C8_SecurityLevels ==
    /\ \A i \in Inst :
          /\ inst[i].alive =>
                /\ level[i] \in {2, 3, 5}
                /\ <<inst[i].k, inst[i].l, inst[i].eta>> = LevelTable(level[i])
          /\ ~inst[i].alive => inst[i] = NoObject
    /\ ret.op = "init" =>
          /\ ret.kind = "ValueError" <=> ret.arg \notin {2, 3, 5}
          /\ ret.kind = "ValueError" => ~inst[ret.self].alive
          /\ ret.kind = "return" => (inst[ret.self].alive /\ level[ret.self] = ret.arg)

C8_Witness ==
    /\ ret.op = "init" /\ ret.kind = "ValueError" /\ ret.arg = 4
    /\ \E i \in Inst : inst[i].alive /\ level[i] = 3 /\ keygens[i] /\ held.present

\* The convolution sums of the claim, over the centered coefficients.
RECURSIVE SumOver(_, _, _)
SumOver(a, b, pairs) ==
    IF pairs = {} THEN 0
    ELSE LET ij == CHOOSE x \in pairs : TRUE
         IN  Centered(a[ij[1] + 1]) * Centered(b[ij[2] + 1])
               + SumOver(a, b, pairs \ {ij})

Convolution(a, b, d) ==
    LET idx == (0..(N - 1)) \X (0..(N - 1))
    IN  (SumOver(a, b, {ij \in idx : ij[1] + ij[2] = d})
           - SumOver(a, b, {ij \in idx : ij[1] + ij[2] = d + N})) % Q

Monomial(e) == [n \in 1..N |-> IF n = e + 1 THEN 1 ELSE 0]

\* C9: p1 * p2 is the negacyclic convolution modulo Q, with N coefficients
\* in [0, Q); X^(N-1) * X = Q - 1; (1 + 2X)(3 + 4X) = 3 + 10X + 8X^2.
C9_NegacyclicProduct ==
    prod # <<>> =>
        /\ Len(prod) = N
        /\ \A d \in 0..(N - 1) :
              /\ prod[d + 1] \in 0..(Q - 1)
              /\ prod[d + 1] = Convolution(p1, p2, d)
        /\ (p1 = Monomial(N - 1) /\ p2 = Monomial(1)) =>
              prod = [n \in 1..N |-> IF n = 1 THEN Q - 1 ELSE 0]
        /\ (p1 = Polynomial(<<1, 2>>) /\ p2 = Polynomial(<<3, 4>>)) =>
              prod = Polynomial(<<3, 10, 8>>)

C9_Witness ==
    /\ p1 = Monomial(N - 1) /\ p2 = Monomial(1)
    /\ prod # <<>> /\ prod[1] = Q - 1

\* C10: get_matrix_A() on an object with keys returns the matrix of the
\* object's current rho.
C10_CacheCoherence ==
    \A i \in Inst : keygens[i] => get_matrix_A(i, inst[i], lru).value = A_of(i)

====
